---- MODULE Spec2Model ----
(***************************************************************************)
(* Model of the three command-line pipelines of the repository:            *)
(*   - convert_jsonl_to_parquet.py             (Format Converter)          *)
(*   - examples/data_preprocess/olympic_dataset.py        (Normalizer)     *)
(*   - examples/data_preprocess/split_and_upload_olympic.py (Splitter)     *)
(* The pipelines share no state; each has its own specification            *)
(* (SpecConverter, SpecNormalizer, SpecSplitter) over its own variables,   *)
(* the other pipelines' variables staying idle.                            *)
(***************************************************************************)
EXTENDS Integers, Sequences, FiniteSets, TLC

VARIABLES
    \* ---- Format Converter ----
    cargs,      \* parsed command line: [batch, input, output]
    fs,         \* the .jsonl files of the working directory
    snaps,      \* the .parquet files of the working directory
    cpc,        \* position of main(): start / batch / single / done / raised
    ci,         \* loop index into files_to_convert
    cmode,      \* branch main() took: none / batch / single
    clog,       \* what was printed and called, in order
    lastConv,   \* outcome of the last convert_jsonl_to_parquet call
    \* ---- Dataset Normalizer ----
    dataset,    \* datasets.load_dataset(data_source): split name -> raw records
    keepsInput, \* whether the installed Dataset.map merges the untouched input row
    hdfs_dir,   \* --hdfs_dir
    npc,        \* position of the script: loop / fallback / hdfs / done / aborted
    si,         \* index of the split being processed
    ri,         \* position of the next record Dataset.map hands to _process_fn
    mapped,     \* rows Dataset.map has produced for the current split
    disk,       \* <local_dir>/<split>.parquet
    written,    \* splits whose snapshot this run wrote
    copied,     \* whether validation.parquet was duplicated as test.parquet
    mirror,     \* what was copied to hdfs_dir
    lastCall,   \* the last _process_fn call: the dict passed in, before and after
    nerr,       \* the uncaught exception, if any
    \* ---- Splitter/Uploader ----
    sargs,      \* the command line and the HF_TOKEN environment variable
    source,     \* the dataset held by the hub under original_repo
    spc,        \* position of the script
    py_random,  \* seed of Python's `random` module (None: seeded by the OS)
    activity,   \* network operations performed, in order
    shuffled,   \* train_split.shuffle(seed=...), as source row numbers
    split_dict, \* result of train_test_split
    published,  \* what push_to_hub uploaded in this run
    serr,       \* the uncaught exception, if any
    run,        \* which invocation of the script this is
    prev        \* what the previous invocation uploaded

cvars == <<cargs, fs, snaps, cpc, ci, cmode, clog, lastConv>>
nvars == <<dataset, keepsInput, hdfs_dir, npc, si, ri, mapped, disk, written,
           copied, mirror, lastCall, nerr>>
svars == <<sargs, source, spc, py_random, activity, shuffled, split_dict,
           published, serr, run, prev>>
vars == <<cvars, nvars, svars>>

None == "None"

(***************************************************************************)
(* Bounds                                                                  *)
(***************************************************************************)
MaxLines == 2
MaxRecs == 3
MaxK == 3
MaxRuns == 2

(***************************************************************************)
(* Format Converter: src/convert_jsonl_to_parquet.py                       *)
(***************************************************************************)

\* The lines a .jsonl file may hold: a whitespace-only line, a line that is
\* not JSON, two JSON objects with the same fields and value types, and a
\* JSON value that is not an object (json.loads accepts any JSON text:
\* numbers, strings, null, ...).
Lines == {"blank", "bad", "o1", "o2", "s1"}

\* line.strip() leaves the empty string
StripIsEmpty(line) == line = "blank"

\* json.loads(line) raises JSONDecodeError
JsonDecodeError(line) == line \in {"blank", "bad"}

\* json.loads(line): a dict for a JSON object, another Python value otherwise
JsonLoads(line) ==
    CASE line = "o1" -> [type |-> "dict", id |-> 1]
      [] line = "o2" -> [type |-> "dict", id |-> 2]
      [] line = "s1" -> [type |-> "scalar", id |-> 3]

RECURSIVE ReadFrom(_, _)
ReadFrom(lines, k) ==
    IF k > Len(lines) THEN <<>>
    ELSE IF StripIsEmpty(lines[k]) THEN ReadFrom(lines, k + 1)
    ELSE IF JsonDecodeError(lines[k]) THEN ReadFrom(lines, k + 1)
    ELSE <<JsonLoads(lines[k])>> \o ReadFrom(lines, k + 1)

\* read_jsonl: the parsed records of the non-blank lines that parse, in order
read_jsonl(lines) == ReadFrom(lines, 1)

IsMapping(v) == v.type = "dict"

\* pd.DataFrame(data) for a non-empty list.  A list whose first element is a
\* dict is read as a list of dicts (x.keys() of every element), which raises
\* on an element that is no dict.  A list whose first element is a scalar
\* becomes one column named 0 (an integer, not a string) holding the elements.
DataFrame(data) ==
    IF IsMapping(data[1])
    THEN IF \A k \in 1..Len(data) : IsMapping(data[k])
         THEN [ok |-> TRUE, rows |-> data, strcols |-> TRUE]
         ELSE [ok |-> FALSE, rows |-> <<>>, strcols |-> TRUE]
    ELSE [ok |-> TRUE, rows |-> data, strcols |-> FALSE]

\* df.to_parquet(parquet_path, index=False, engine='pyarrow'): the outcomes
\* the installed pandas/pyarrow can produce.  A frame of dict rows is
\* written.  A column named 0 is refused by pandas releases that demand
\* string column names and accepted by later ones; a column that mixes
\* dicts and scalars cannot be converted by pyarrow in any release.
ToParquetOutcomes(df) ==
    IF df.strcols THEN {"written"}
    ELSE IF \E k \in 1..Len(df.rows) : IsMapping(df.rows[k]) THEN {"raised"}
    ELSE {"written", "raised"}

\* Path(jsonl_path).with_suffix('.parquet')
WithSuffix(p) ==
    CASE p = "train.jsonl" -> "train.parquet"
      [] p = "test.jsonl" -> "test.parquet"
      [] OTHER -> "nofile.parquet"

JsonlPaths == {"train.jsonl", "test.jsonl"}
ParquetPaths == {"train.parquet", "test.parquet", "nofile.parquet", "out.parquet"}

\* Path(p).exists()
Exists(p) == p \in DOMAIN fs /\ fs[p].exists

NoFile == [exists |-> FALSE, lines |-> <<>>]
NoSnap == [exists |-> FALSE, rows |-> <<>>]

Event(e, p) == [ev |-> e, path |-> p]

\* no convert_jsonl_to_parquet call has been made yet
NoConv == [path |-> None, out |-> None, outcome |-> "none", wrote |-> FALSE]

\* convert_jsonl_to_parquet(jsonl_path, parquet_path); `after` is where
\* main() continues when the call returns.
convert_jsonl_to_parquet(jsonl_path, parquet_arg, after, i) ==
    LET parquet_path == IF parquet_arg = None THEN WithSuffix(jsonl_path)
                        ELSE parquet_arg
        called == Append(clog, Event("convert", jsonl_path))
    IN  IF ~Exists(jsonl_path)
        THEN /\ clog' = Append(called, Event("error_missing", jsonl_path))
             /\ lastConv' = [path |-> jsonl_path, out |-> parquet_path,
                             outcome |-> "returned", wrote |-> FALSE]
             /\ cpc' = after /\ ci' = i
             /\ UNCHANGED snaps
        ELSE LET data == read_jsonl(fs[jsonl_path].lines) IN
             IF data = <<>>
             THEN /\ clog' = Append(called, Event("warn_empty", jsonl_path))
                  /\ lastConv' = [path |-> jsonl_path, out |-> parquet_path,
                                  outcome |-> "returned", wrote |-> FALSE]
                  /\ cpc' = after /\ ci' = i
                  /\ UNCHANGED snaps
             ELSE LET df == DataFrame(data) IN
                  IF ~df.ok
                  THEN /\ clog' = called
                       /\ lastConv' = [path |-> jsonl_path, out |-> parquet_path,
                                       outcome |-> "raised", wrote |-> FALSE]
                       /\ cpc' = "raised" /\ ci' = i
                       /\ UNCHANGED snaps
                  ELSE \E res \in ToParquetOutcomes(df) :
                       IF res = "written"
                       THEN /\ snaps' = [snaps EXCEPT ![parquet_path] =
                                           [exists |-> TRUE, rows |-> df.rows]]
                            /\ clog' = Append(called, Event("saved", parquet_path))
                            /\ lastConv' = [path |-> jsonl_path, out |-> parquet_path,
                                            outcome |-> "returned", wrote |-> TRUE]
                            /\ cpc' = after /\ ci' = i
                       ELSE /\ clog' = called
                            /\ lastConv' = [path |-> jsonl_path, out |-> parquet_path,
                                            outcome |-> "raised", wrote |-> FALSE]
                            /\ cpc' = "raised" /\ ci' = i
                            /\ UNCHANGED snaps

files_to_convert == <<"train.jsonl", "test.jsonl">>

\* Python truthiness of args.input: None and the empty string are false
InputGiven(a) == a.input \notin {None, ""}

\* a main() that forgets the --batch flag
BatchCondition_IgnoresFlag(a) == ~InputGiven(a)

\* main(), line 99: the branch taken
BatchCondition(a) == a.batch \/ ~InputGiven(a)

\* main(): parse the arguments and take the branch
Main ==
    /\ cpc = "start"
    /\ IF BatchCondition(cargs)
       THEN cmode' = "batch" /\ cpc' = "batch"
       ELSE cmode' = "single" /\ cpc' = "single"
    /\ UNCHANGED <<cargs, fs, snaps, ci, clog, lastConv>>
    /\ UNCHANGED <<nvars, svars>>

\* one iteration of the loop over files_to_convert
BatchStep ==
    /\ cpc = "batch"
    /\ ci <= Len(files_to_convert)
    /\ LET file_path == files_to_convert[ci]
           after == IF ci = Len(files_to_convert) THEN "done" ELSE "batch"
       IN  IF Exists(file_path)
           THEN /\ convert_jsonl_to_parquet(file_path, None, after, ci + 1)
           ELSE /\ clog' = Append(clog, Event("skip", file_path))
                /\ cpc' = after
                /\ ci' = ci + 1
                /\ UNCHANGED <<snaps, lastConv>>
    /\ UNCHANGED <<cargs, fs, cmode>>
    /\ UNCHANGED <<nvars, svars>>

\* single file mode
SingleConvert ==
    /\ cpc = "single"
    /\ convert_jsonl_to_parquet(cargs.input, cargs.output, "done", ci)
    /\ UNCHANGED <<cargs, fs, cmode>>
    /\ UNCHANGED <<nvars, svars>>

(***************************************************************************)
(* Dataset Normalizer: src/examples/data_preprocess/olympic_dataset.py     *)
(***************************************************************************)

data_source == "xiaomama2002/olympic_dataset"

SplitNames == {"train", "validation", "test"}

\* Raw records: two with a question (one with a further field), one without
RawRecords == {[question |-> "q1", answer |-> "a1"],
               [question |-> "q2"],
               [answer |-> "a1"]}

\* list(dataset.keys())
splits == SelectSeq(<<"train", "validation", "test">>, LAMBDA s : s \in DOMAIN dataset)

\* example.get("question"): no KeyError, the dict is left as it is
get_question(example) ==
    [raised |-> FALSE,
     value |-> IF "question" \in DOMAIN example THEN example["question"] ELSE None,
     rest |-> example]

\* example.pop("question"): KeyError if the key is missing, otherwise the
\* value, and the key is removed from the dict that was passed in
pop_question(example) ==
    IF "question" \in DOMAIN example
    THEN [raised |-> FALSE,
          value |-> example["question"],
          rest |-> [f \in DOMAIN example \ {"question"} |-> example[f]]]
    ELSE [raised |-> TRUE, value |-> None, rest |-> example]

\* the f-string: the fixed instruction text, the question, a final newline
prompt_text(question_raw) == <<"INSTRUCTIONS PROBLEM: ", question_raw, "\n">>

\* a _process_fn that numbers the records from one
processed_OneBased(split, question_raw, idx) ==
    [data_source |-> data_source,
     prompt |-> <<[role |-> "user", content |-> prompt_text(question_raw)]>>,
     ability |-> "math",
     reward_model |-> [style |-> "llm_as_a_judge", ground_truth |-> "0"],
     extra_info |-> [split |-> split, index |-> idx + 1, question |-> question_raw]]

\* the dict _process_fn returns
processed(split, question_raw, idx) ==
    [data_source |-> data_source,
     prompt |-> <<[role |-> "user", content |-> prompt_text(question_raw)]>>,
     ability |-> "math",
     reward_model |-> [style |-> "llm_as_a_judge", ground_truth |-> "0"],
     extra_info |-> [split |-> split, index |-> idx, question |-> question_raw]]

\* Dataset.map: the returned dict laid over the input row's columns
Merge(row, out) ==
    [f \in DOMAIN row \cup DOMAIN out |-> IF f \in DOMAIN out THEN out[f] ELSE row[f]]

NoCall == [called |-> FALSE, before |-> <<>>, after |-> <<>>, raised |-> FALSE,
           split |-> None, idx |-> 0]

StaleSnap == [exists |-> TRUE, rows |-> <<[stale |-> TRUE]>>]

\* hf_split.map(...): one call of _process_fn(example, idx), idx zero-based
ProcessRecord ==
    /\ npc = "loop"
    /\ si <= Len(splits)
    /\ ri <= Len(dataset[splits[si]])
    /\ LET split_name == splits[si]
           example == dataset[split_name][ri]
           idx == ri - 1
           pop == pop_question(example)
       IN  /\ lastCall' = [called |-> TRUE, before |-> example, after |-> pop.rest,
                           raised |-> pop.raised, split |-> split_name, idx |-> idx]
           /\ IF pop.raised
              THEN /\ npc' = "aborted"
                   /\ nerr' = "KeyError"
                   /\ UNCHANGED <<ri, mapped>>
              ELSE /\ mapped' = Append(mapped,
                          Merge(IF keepsInput THEN example ELSE pop.rest,
                                processed(split_name, pop.value, idx)))
                   /\ ri' = ri + 1
                   /\ UNCHANGED <<npc, nerr>>
    /\ UNCHANGED <<dataset, keepsInput, hdfs_dir, si, disk, written, copied, mirror>>
    /\ UNCHANGED <<cvars, svars>>

\* mapped.to_parquet(out_path), once map has gone through the split
WriteParquet ==
    /\ npc = "loop"
    /\ si <= Len(splits)
    /\ ri > Len(dataset[splits[si]])
    /\ disk' = [disk EXCEPT ![splits[si]] = [exists |-> TRUE, rows |-> mapped]]
    /\ written' = written \cup {splits[si]}
    /\ si' = si + 1
    /\ ri' = 1
    /\ mapped' = <<>>
    /\ UNCHANGED <<dataset, keepsInput, hdfs_dir, npc, copied, mirror, lastCall, nerr>>
    /\ UNCHANGED <<cvars, svars>>

\* the for loop is exhausted
LoopEnd ==
    /\ npc = "loop"
    /\ si > Len(splits)
    /\ npc' = "fallback"
    /\ UNCHANGED <<dataset, keepsInput, hdfs_dir, si, ri, mapped, disk, written,
                   copied, mirror, lastCall, nerr>>
    /\ UNCHANGED <<cvars, svars>>

\* a fallback that does not look for a test split
FallbackCondition_AnyValidation(names) == "validation" \in names

\* line 146
FallbackCondition(names) == "validation" \in names /\ "test" \notin names

\* the validation -> test duplication
Fallback ==
    /\ npc = "fallback"
    /\ IF FallbackCondition({splits[k] : k \in 1..Len(splits)}) /\ disk["validation"].exists
       THEN /\ disk' = [disk EXCEPT !["test"] = disk["validation"]]
            /\ copied' = TRUE
       ELSE UNCHANGED <<disk, copied>>
    /\ npc' = "hdfs"
    /\ UNCHANGED <<dataset, keepsInput, hdfs_dir, si, ri, mapped, written, mirror,
                   lastCall, nerr>>
    /\ UNCHANGED <<cvars, svars>>

NoMirror == [exists |-> FALSE, files |-> <<>>]

\* the optional HDFS copy; makedirs/copy belong to the storage collaborator
\* and may fail
HdfsCopy ==
    /\ npc = "hdfs"
    /\ IF hdfs_dir = None
       THEN npc' = "done" /\ UNCHANGED <<mirror, nerr>>
       ELSE \E ok \in BOOLEAN :
              IF ok
              THEN /\ mirror' = [exists |-> TRUE, files |-> disk]
                   /\ npc' = "done"
                   /\ UNCHANGED nerr
              ELSE /\ npc' = "aborted"
                   /\ nerr' = "hdfs"
                   /\ UNCHANGED mirror
    /\ UNCHANGED <<dataset, keepsInput, hdfs_dir, si, ri, mapped, disk, written,
                   copied, lastCall>>
    /\ UNCHANGED <<cvars, svars>>

InitNormalizerVars ==
    /\ \E S \in SUBSET SplitNames :
       \E n1 \in 0..MaxRecs : \E n2 \in 0..(MaxRecs - n1) : \E n3 \in 0..(MaxRecs - n1 - n2) :
       \E tr \in [1..n1 -> RawRecords], va \in [1..n2 -> RawRecords],
          te \in [1..n3 -> RawRecords] :
         /\ ("train" \notin S => n1 = 0)
         /\ ("validation" \notin S => n2 = 0)
         /\ ("test" \notin S => n3 = 0)
         /\ dataset = [s \in S |-> CASE s = "train" -> tr
                                     [] s = "validation" -> va
                                     [] s = "test" -> te]
    /\ keepsInput \in BOOLEAN
    /\ hdfs_dir \in {None, "hdfs://mirror"}
    /\ npc = "loop"
    /\ si = 1
    /\ ri = 1
    /\ mapped = <<>>
    /\ disk \in [SplitNames -> {NoSnap, StaleSnap}]
    /\ disk["train"] = NoSnap
    /\ written = {}
    /\ copied = FALSE
    /\ mirror = NoMirror
    /\ lastCall = NoCall
    /\ nerr = "none"

IdleNormalizer ==
    /\ dataset = <<>>
    /\ keepsInput = FALSE
    /\ hdfs_dir = None
    /\ npc = "idle"
    /\ si = 1
    /\ ri = 1
    /\ mapped = <<>>
    /\ disk = [s \in SplitNames |-> NoSnap]
    /\ written = {}
    /\ copied = FALSE
    /\ mirror = NoMirror
    /\ lastCall = NoCall
    /\ nerr = "none"

(***************************************************************************)
(* Splitter/Uploader:                                                      *)
(* src/examples/data_preprocess/split_and_upload_olympic.py                *)
(***************************************************************************)

DefaultRepo == "xiaomama2002/olympic_dataset"
DefaultSeed == 42

\* --test_size as a fraction <<numerator, denominator>>; 0.2 is the default
DefaultTestSize == <<1, 5>>
TestSizes == {<<0, 1>>, DefaultTestSize, <<1, 2>>, <<4, 5>>, <<1, 1>>}

NoUpload == [exists |-> FALSE, repo |-> None, private |-> FALSE,
             train |-> <<>>, test |-> <<>>]

\* args.hf_token: the --hf_token argument, defaulting to os.getenv("HF_TOKEN")
hf_token(a) == IF a.token_arg = None THEN a.env_token ELSE a.token_arg

\* a check that only looks for None
TokenMissing_OnlyNone(tok) == tok = None

\* `not args.hf_token`: None and the empty string are false
TokenMissing(tok) == tok \in {None, ""}

\* parser.parse_args(): the parser defines --original_repo, --test_size,
\* --hf_token, --seed and --private; any other option ends the process
ParseArgs ==
    /\ spc = "start"
    /\ IF sargs.new_repo_id /= None
       THEN spc' = "aborted" /\ serr' = "usage"
       ELSE spc' = "parsed" /\ UNCHANGED serr
    /\ UNCHANGED <<sargs, source, py_random, activity, shuffled, split_dict,
                   published, run, prev>>
    /\ UNCHANGED <<cvars, nvars>>

\* lines 58-59
CheckToken ==
    /\ spc = "parsed"
    /\ IF TokenMissing(hf_token(sargs))
       THEN spc' = "aborted" /\ serr' = "no_token"
       ELSE spc' = "load" /\ UNCHANGED serr
    /\ UNCHANGED <<sargs, source, py_random, activity, shuffled, split_dict,
                   published, run, prev>>
    /\ UNCHANGED <<cvars, nvars>>

\* datasets.load_dataset(args.original_repo)
LoadDataset ==
    /\ spc = "load"
    /\ activity' = Append(activity, "load")
    /\ spc' = "loaded"
    /\ UNCHANGED <<sargs, source, py_random, shuffled, split_dict, published,
                   serr, run, prev>>
    /\ UNCHANGED <<cvars, nvars>>

\* lines 64-67
CheckTrain ==
    /\ spc = "loaded"
    /\ IF "train" \notin source.splits
       THEN spc' = "aborted" /\ serr' = "no_train"
       ELSE spc' = "shuffle" /\ UNCHANGED serr
    /\ UNCHANGED <<sargs, source, py_random, activity, shuffled, split_dict,
                   published, run, prev>>
    /\ UNCHANGED <<cvars, nvars>>

\* Dataset.shuffle(seed=s): the permutation drawn by a generator that is
\* seeded with s alone, so a function of s and the number of rows
SeededPermutation(n, s) == [i \in 1..n |-> ((i - 1 + s) % n) + 1]

\* random.seed(args.seed); train_split.shuffle(seed=args.seed)
Shuffle ==
    /\ spc = "shuffle"
    /\ py_random' = sargs.seed
    /\ shuffled' = SeededPermutation(source.K, sargs.seed)
    /\ spc' = "split"
    /\ UNCHANGED <<sargs, source, activity, split_dict, published, serr, run, prev>>
    /\ UNCHANGED <<cvars, nvars>>

\* ceil(test_size * n_samples)
NTest(ts, n) == (ts[1] * n + ts[2] - 1) \div ts[2]

\* test_size <= 0 or test_size >= 1
BadTestSize(ts) == ts[1] <= 0 \/ ts[1] >= ts[2]

\* a selection of the train rows that starts one position early
TrainIndices_OffByOne(perm, n_test, n_train) ==
    [i \in 1..n_train |-> perm[n_test + i - 1]]

\* permutation[n_test : n_test + n_train]
TrainIndices(perm, n_test, n_train) == [i \in 1..n_train |-> perm[n_test + i]]

\* permutation[:n_test]
TestIndices(perm, n_test) == [i \in 1..n_test |-> perm[i]]

\* shuffled.train_test_split(test_size=args.test_size): no seed and no
\* generator are passed and shuffle defaults to True, so the permutation
\* comes from NumPy's global generator, which nothing in the script seeds
\* (random.seed seeds Python's generator): any permutation can come out.
TrainTestSplit ==
    /\ spc = "split"
    /\ LET n == Len(shuffled)
           n_test == NTest(sargs.test_size, n)
           n_train == n - n_test
       IN  IF BadTestSize(sargs.test_size) \/ n_train = 0
           THEN /\ spc' = "aborted"
                /\ serr' = "split_error"
                /\ UNCHANGED split_dict
           ELSE \E perm \in Permutations(1..n) :
                /\ split_dict' =
                     [train |-> [i \in 1..n_train |->
                                   shuffled[TrainIndices(perm, n_test, n_train)[i]]],
                      test |-> [i \in 1..n_test |->
                                   shuffled[TestIndices(perm, n_test)[i]]]]
                /\ spc' = "push"
                /\ UNCHANGED serr
    /\ UNCHANGED <<sargs, source, py_random, activity, shuffled, published, run, prev>>
    /\ UNCHANGED <<cvars, nvars>>

\* new_dataset.push_to_hub(args.original_repo, private=args.private, token=...)
PushToHub ==
    /\ spc = "push"
    /\ activity' = Append(activity, "push")
    /\ published' = [exists |-> TRUE, repo |-> sargs.original_repo,
                     private |-> sargs.private,
                     train |-> split_dict.train, test |-> split_dict.test]
    /\ spc' = "done"
    /\ UNCHANGED <<sargs, source, py_random, shuffled, split_dict, serr, run, prev>>
    /\ UNCHANGED <<cvars, nvars>>

\* the script is started again, on the same source with the same arguments
RunAgain ==
    /\ spc = "done"
    /\ run < MaxRuns
    /\ run' = run + 1
    /\ prev' = published
    /\ spc' = "start"
    /\ py_random' = None
    /\ activity' = <<>>
    /\ shuffled' = <<>>
    /\ split_dict' = [train |-> <<>>, test |-> <<>>]
    /\ published' = NoUpload
    /\ serr' = "none"
    /\ UNCHANGED <<sargs, source>>
    /\ UNCHANGED <<cvars, nvars>>

InitSplitterVars ==
    /\ sargs \in [original_repo : {DefaultRepo, "someone/other_dataset"},
                  new_repo_id : {None, "me/olympic_split"},
                  test_size : TestSizes,
                  token_arg : {None, "", "hf_arg"},
                  env_token : {None, "hf_env"},
                  seed : {DefaultSeed, DefaultSeed + 1},
                  private : BOOLEAN]
    /\ source \in [splits : SUBSET {"train", "test"}, K : 0..MaxK]
    /\ ("train" \notin source.splits => source.K = 0)
    /\ spc = "start"
    /\ py_random = None
    /\ activity = <<>>
    /\ shuffled = <<>>
    /\ split_dict = [train |-> <<>>, test |-> <<>>]
    /\ published = NoUpload
    /\ serr = "none"
    /\ run = 1
    /\ prev = NoUpload

IdleSplitter ==
    /\ sargs = [original_repo |-> DefaultRepo, new_repo_id |-> None,
                test_size |-> DefaultTestSize, token_arg |-> None,
                env_token |-> None, seed |-> DefaultSeed, private |-> FALSE]
    /\ source = [splits |-> {}, K |-> 0]
    /\ spc = "idle"
    /\ py_random = None
    /\ activity = <<>>
    /\ shuffled = <<>>
    /\ split_dict = [train |-> <<>>, test |-> <<>>]
    /\ published = NoUpload
    /\ serr = "none"
    /\ run = 1
    /\ prev = NoUpload

RECURSIVE SeqsUpTo(_, _)
SeqsUpTo(S, n) ==
    IF n = 0 THEN {<<>>}
    ELSE LET shorter == SeqsUpTo(S, n - 1)
         IN  shorter \cup {Append(s, x) : s \in shorter, x \in S}

Files == {NoFile} \cup {[exists |-> TRUE, lines |-> l] : l \in SeqsUpTo(Lines, MaxLines)}

InitConverter ==
    /\ cargs \in [batch : BOOLEAN,
                  input : {None, "", "train.jsonl", "nofile.jsonl"},
                  output : {None, "out.parquet"}]
    /\ (cargs.output /= None => cargs.input /= None)
    /\ fs \in [JsonlPaths -> Files]
    /\ snaps = [p \in ParquetPaths |-> NoSnap]
    /\ cpc = "start"
    /\ ci = 1
    /\ cmode = "none"
    /\ clog = <<>>
    /\ lastConv = NoConv
    /\ IdleNormalizer
    /\ IdleSplitter

NextConverter == Main \/ BatchStep \/ SingleConvert

SpecConverter == InitConverter /\ [][NextConverter]_vars

IdleConverter ==
    /\ cargs = [batch |-> FALSE, input |-> None, output |-> None]
    /\ fs = [p \in JsonlPaths |-> NoFile]
    /\ snaps = [p \in ParquetPaths |-> NoSnap]
    /\ cpc = "idle"
    /\ ci = 1
    /\ cmode = "none"
    /\ clog = <<>>
    /\ lastConv = NoConv

InitNormalizer == InitNormalizerVars /\ IdleConverter /\ IdleSplitter

NextNormalizer == ProcessRecord \/ WriteParquet \/ LoopEnd \/ Fallback \/ HdfsCopy

SpecNormalizer == InitNormalizer /\ [][NextNormalizer]_vars

InitSplitter == InitSplitterVars /\ IdleConverter /\ IdleNormalizer

NextSplitter ==
    ParseArgs \/ CheckToken \/ LoadDataset \/ CheckTrain \/ Shuffle
        \/ TrainTestSplit \/ PushToHub \/ RunAgain

SpecSplitter == InitSplitter /\ [][NextSplitter]_vars

(***************************************************************************)
(* Claims about the Format Converter                                       *)
(***************************************************************************)

\* the lines of a file that are non-blank and valid JSON, in file order
ValidLines(lines) == SelectSeq(lines, LAMBDA l : l \in {"o1", "o2", "s1"})

ExpectedRows(lines) ==
    [k \in 1..Len(ValidLines(lines)) |-> JsonLoads(ValidLines(lines)[k])]

HasEvent(e, p) == \E k \in 1..Len(clog) : clog[k] = Event(e, p)

\* C3 (as claimed): every call of convert_jsonl_to_parquet on an existing
\* file returns normally; with N > 0 lines that parse as JSON the snapshot
\* holds exactly those N rows in input order, and with N = 0 no snapshot is
\* written and the "No data found" warning is printed.
C3_ConverterRowCount ==
    (lastConv /= NoConv /\ Exists(lastConv.path)) =>
        LET lines == fs[lastConv.path].lines
            N == Len(ValidLines(lines))
        IN  /\ lastConv.outcome = "returned"
            /\ N > 0 => /\ lastConv.wrote
                        /\ snaps[lastConv.out].exists
                        /\ Len(snaps[lastConv.out].rows) = N
                        /\ snaps[lastConv.out].rows = ExpectedRows(lines)
            /\ N = 0 => /\ ~lastConv.wrote
                        /\ ~snaps[lastConv.out].exists
                        /\ HasEvent("warn_empty", lastConv.path)

\* the files main() attempted (converted or skipped), in order
Attempts == SelectSeq(clog, LAMBDA e : e.ev \in {"convert", "skip"})

\* a file that is missing, empty, or holds no line that parses
Benign(f) == ~f.exists \/ ValidLines(f.lines) = <<>>

BatchBehaviour ==
    cmode = "batch" =>
        /\ Len(Attempts) <= Len(files_to_convert)
        /\ \A k \in 1..Len(Attempts) :
              /\ Attempts[k].path = files_to_convert[k]
              /\ Attempts[k].ev = "convert" <=> fs[files_to_convert[k]].exists
        /\ cpc = "done" => Len(Attempts) = Len(files_to_convert)
        /\ (Len(Attempts) = 1 /\ Benign(fs[files_to_convert[1]])) =>
              (cpc = "batch" /\ ci = 2)

SingleBehaviour ==
    cmode = "single" =>
        /\ Len(Attempts) <= 1
        /\ \A k \in 1..Len(Attempts) : Attempts[k] = Event("convert", cargs.input)
        /\ cpc \in {"done", "raised"} => Len(Attempts) = 1
        /\ \A p \in ParquetPaths :
              snaps[p].exists =>
                p = (IF cargs.output = None THEN WithSuffix(cargs.input) ELSE cargs.output)

HasQuestion(r) == "question" \in DOMAIN r

\* the row at one-based position k of rows stems from the raw record at
\* zero-based position k - 1 of split s
Provenance(s, rows, k) ==
    /\ rows[k].extra_info.question = dataset[s][k]["question"]
    /\ rows[k].extra_info.index = k - 1
    /\ rows[k].extra_info.split = s
    /\ Len(rows[k].prompt) = 1
    /\ rows[k].prompt[1].role = "user"
    /\ \E c \in 1..Len(rows[k].prompt[1].content) :
         rows[k].prompt[1].content[c] = dataset[s][k]["question"]

\* C4: every Normalized Record, in the rows being mapped and in the
\* snapshots this run wrote, carries the question, the zero-based position
\* and the split name of the Raw Record it was made from, and one user
\* message containing the question; so no two rows of a split share an index.
C4_Provenance ==
    /\ (npc = "loop" /\ si <= Len(splits)) =>
          \A k \in 1..Len(mapped) : Provenance(splits[si], mapped, k)
    /\ \A s \in written :
          /\ Len(disk[s].rows) = Len(dataset[s])
          /\ \A k \in 1..Len(disk[s].rows) : Provenance(s, disk[s].rows, k)
          /\ \A j, k \in 1..Len(disk[s].rows) :
                disk[s].rows[j].extra_info.index = disk[s].rows[k].extra_info.index
                    => j = k

\* a snapshot of two rows with different questions has been written
C4_Witness ==
    \E s \in written :
        /\ Len(disk[s].rows) = 2
        /\ disk[s].rows[1].extra_info.question /= disk[s].rows[2].extra_info.question
        /\ disk[s].rows[2].extra_info.index = 1

PastFallback == npc \in {"hdfs", "done"} \/ (npc = "aborted" /\ nerr = "hdfs")

\* the snapshot of split s is the one made from the source's own split s
OwnSnapshot(s) ==
    /\ disk[s].exists
    /\ Len(disk[s].rows) = Len(dataset[s])
    /\ \A k \in 1..Len(disk[s].rows) : disk[s].rows[k].extra_info.split = s

\* C5: once the run is past the duplication step: with a validation split
\* and no test split, test.parquet exists and equals validation.parquet,
\* which is still the snapshot of the validation split; otherwise nothing is
\* copied, and test.parquet is the snapshot of the source's own test split
\* if there is one and is untouched by the run if there is none.
C5_SplitNameFallback ==
    PastFallback =>
        IF "validation" \in DOMAIN dataset /\ "test" \notin DOMAIN dataset
        THEN /\ copied
             /\ disk["test"].exists
             /\ disk["test"] = disk["validation"]
             /\ OwnSnapshot("validation")
        ELSE /\ ~copied
             /\ "test" \in DOMAIN dataset => OwnSnapshot("test")
             /\ "test" \notin DOMAIN dataset =>
                   ("test" \notin written /\ disk["test"] \in {NoSnap, StaleSnap})

\* a completed run that duplicated a non-empty validation snapshot over a
\* stale test.parquet
C5_Witness ==
    /\ npc = "done"
    /\ copied
    /\ "test" \notin DOMAIN dataset
    /\ Len(disk["validation"].rows) > 0
    /\ disk["test"] = disk["validation"]
    /\ "test" \notin written

\* position in `splits` of the first split holding a record without question
LacksQuestion(k) == \E j \in 1..Len(dataset[splits[k]]) : ~HasQuestion(dataset[splits[k]][j])

\* C7: a split holding a record without the question field is never written,
\* nor is any later split; the run never gets to the duplication step or the
\* mirror step, and the run that meets such a record ends aborted with the
\* KeyError.
C7_MissingQuestionAbort ==
    /\ \A k \in 1..Len(splits) :
          LacksQuestion(k) =>
             /\ \A j \in k..Len(splits) : splits[j] \notin written
             /\ npc \in {"loop", "aborted"}
             /\ ~copied
             /\ ~mirror.exists
             /\ nerr \in {"none", "KeyError"}
    /\ nerr = "KeyError" =>
          /\ npc = "aborted"
          /\ ~HasQuestion(dataset[splits[si]][ri])
          /\ \A j \in si..Len(splits) : splits[j] \notin written
          /\ ~copied
          /\ ~mirror.exists

\* aborted in the second split, after the first was written, with a mirror
\* configured and a later split left over
C7_Witness ==
    /\ nerr = "KeyError"
    /\ si = 2
    /\ Len(splits) = 3
    /\ ri = 2
    /\ written = {splits[1]}
    /\ hdfs_dir /= None

\* C9 (as claimed): a call of _process_fn on a record that has a question
\* succeeds and leaves the record passed in with the same fields and values.
C9_ArgumentUntouched ==
    (lastCall.called /\ HasQuestion(lastCall.before)) =>
        /\ ~lastCall.raised
        /\ lastCall.after = lastCall.before

\* C9 (amended): a call of _process_fn on a record that has a question
\* succeeds, and its one effect on the record passed in is that the question
\* field is removed; every other field keeps its value.
C9_OnlyQuestionPopped ==
    (lastCall.called /\ HasQuestion(lastCall.before)) =>
        /\ ~lastCall.raised
        /\ DOMAIN lastCall.after = DOMAIN lastCall.before \ {"question"}
        /\ \A f \in DOMAIN lastCall.after : lastCall.after[f] = lastCall.before[f]

\* a call on a record with a question and a further field
C9_Witness ==
    /\ lastCall.called
    /\ HasQuestion(lastCall.before)
    /\ "answer" \in DOMAIN lastCall.before
    /\ lastCall.idx = 1
    /\ Len(mapped) = 2

(***************************************************************************)
(* Claims about the Splitter/Uploader                                      *)
(***************************************************************************)

Range(f) == {f[i] : i \in DOMAIN f}

\* C1: two runs of the Splitter on the same source with the same --seed and
\* --test_size (RunAgain keeps both) place the same records in the uploaded
\* train split and the same records in the uploaded test split.
C1_SplitterDeterminism ==
    (run > 1 /\ prev.exists /\ published.exists) =>
        /\ Range(published.train) = Range(prev.train)
        /\ Range(published.test) = Range(prev.test)

\* C2: the uploaded train and test splits together hold every row of the
\* source train split exactly once.
C2_PartitionExact ==
    published.exists =>
        /\ Range(published.train) \cup Range(published.test) = 1..source.K
        /\ Range(published.train) \cap Range(published.test) = {}
        /\ Cardinality(Range(published.train)) = Len(published.train)
        /\ Cardinality(Range(published.test)) = Len(published.test)
        /\ Len(published.train) + Len(published.test) = source.K

\* an upload of three source rows, two of them in test, in an order that is
\* not the source order
C2_Witness ==
    /\ published.exists
    /\ source.K = 3
    /\ Len(published.test) = 2
    /\ published.test[1] > published.test[2]

NoCredential == hf_token(sargs) \in {None, ""}

\* C6 (as claimed): a run that aborts for want of a credential or of a train
\* split has performed no network operation and has uploaded nothing.
C6_AbortBeforeAnyActivity ==
    (spc = "aborted" /\ serr \in {"no_token", "no_train"}) =>
        (activity = <<>> /\ ~published.exists)

\* C6 (amended): without a credential the run never loads the dataset and
\* aborts with no network operation performed; with a credential but no
\* train split in the source it aborts right after the dataset load, the
\* load being the only network operation; in neither case is anything
\* uploaded.
C6_PreconditionOrdering ==
    /\ NoCredential =>
          /\ activity = <<>>
          /\ ~published.exists
          /\ spc \in {"start", "parsed", "aborted"}
    /\ (~NoCredential /\ "train" \notin source.splits) =>
          /\ activity \in {<<>>, <<"load">>}
          /\ ~published.exists
          /\ spc \in {"start", "parsed", "load", "loaded", "aborted"}
    /\ (spc = "aborted" /\ serr = "no_token") => (NoCredential /\ activity = <<>>)
    /\ (spc = "aborted" /\ serr = "no_train") =>
          ("train" \notin source.splits /\ activity = <<"load">>)

\* the abort for the missing train split, with --hf_token given: the
\* dataset has been loaded by then
C6_Witness ==
    /\ spc = "aborted"
    /\ serr = "no_train"
    /\ activity = <<"load">>
    /\ sargs.token_arg = "hf_arg"

\* C10: the upload goes to a repository other than the one the data came
\* from, and without a visibility flag the repository is created private.
C10_NewPrivateRepo ==
    published.exists =>
        /\ published.repo /= sargs.original_repo
        /\ (~sargs.private => published.private)

====
